---------------------------- MODULE Spec2Model ----------------------------
(***************************************************************************)
(* Huffman compressor / decompressor of HuffmanEncoding.cpp.               *)
(*                                                                         *)
(* Strings (std::string, file contents) are sequences of byte values;      *)
(* '0' is 48, '1' is 49, '-' is 45, ' ' is 32.  Node* values are indices   *)
(* into the sequence `heap` of allocated Node records, NULL is 0.          *)
(* Map<ext_char,int> is a function whose DOMAIN is the key set; foreach    *)
(* over a Map visits the keys in ascending order.                          *)
(***************************************************************************)
EXTENDS Integers, Sequences, FiniteSets, TLC

\* ------------------------------------------------------------------ bounds
MaxLen == 4
MaxWeight == 4
MaxFreq == 10
MaxGarbage == 1
MaxOut == 3

\* ------------------------------------------------------- program constants
PSEUDO_EOF == 256
NOT_A_CHAR == 257
EOF == -1
NULL == 0
NUM_BITS_IN_BYTE == 8

\* The byte values the source files of the pipeline are drawn from:
\* a whitespace byte, a digit and a letter.
Bytes == {32, 49, 65}
\* The byte values the keys of header maps are drawn from:
\* a whitespace byte, a sign, a digit and a letter.
HeaderBytes == {32, 45, 49, 65}
\* The byte values of the leaves of the trees of SpecTree.
TreeBytes == {65, 66, 67, 68}
\* The priority queue's order among equal priorities is the library's.
TieBreaks == {"fifo", "lifo"}

\* ----------------------------------------------------------------- helpers
Min(S) == CHOOSE x \in S : \A y \in S : x <= y
Max(S) == CHOOSE x \in S : \A y \in S : x >= y

RECURSIVE Pow2(_)
Pow2(n) == IF n = 0 THEN 1 ELSE 2 * Pow2(n - 1)

\* Map<K,V>: the empty map, m[k] = v, and the keys in foreach order.
EmptyMap == [k \in {} |-> 0]
Put(m, k, v) == [x \in (DOMAIN m) \cup {k} |-> IF x = k THEN v ELSE m[x]]

RECURSIVE Foreach(_)
Foreach(keys) ==
    IF keys = {} THEN << >>
    ELSE LET k == Min(keys) IN <<k>> \o Foreach(keys \ {k})

\* integerToString / operator<<(int): decimal digits, '-' before a negative.
RECURSIVE Digits(_)
Digits(n) == IF n < 10 THEN <<48 + n>> ELSE Digits(n \div 10) \o <<48 + (n % 10)>>

integerToString(n) == IF n < 0 THEN <<45>> \o Digits(0 - n) ELSE Digits(n)

IsSpace(c) == c \in {9, 10, 11, 12, 13, 32}
IsDigit(c) == c >= 48 /\ c <= 57

\* ------------------------------------------------------- getFrequencyTable
RECURSIVE CountFrom(_, _, _)
CountFrom(file, i, freqTable) ==
    IF i > Len(file) THEN freqTable
    ELSE LET currChar == file[i] IN
         IF currChar \in DOMAIN freqTable
         THEN CountFrom(file, i + 1, Put(freqTable, currChar, freqTable[currChar] + 1))
         ELSE CountFrom(file, i + 1, Put(freqTable, currChar, 1))

getFrequencyTable(file) == Put(CountFrom(file, 1, EmptyMap), PSEUDO_EOF, 1)

\* --------------------------------------------------------------- the tree
Node(c, w, z, o) == [character |-> c, weight |-> w, zero |-> z, one |-> o]

\* enqueueNodes: one leaf per key, in foreach order, priority = weight.
\* The queue is kept as the sequence of its entries in insertion order.
RECURSIVE EnqueueFrom(_, _, _, _)
EnqueueFrom(keys, frequencies, h, q) ==
    IF keys = << >> THEN [heap |-> h, pq |-> q]
    ELSE LET currChar == Head(keys)
             node == Node(currChar, frequencies[currChar], NULL, NULL)
         IN EnqueueFrom(Tail(keys), frequencies, Append(h, node),
                        Append(q, [value |-> Len(h) + 1, priority |-> node.weight]))

\* enqueueNodes as it would be with the priority of line 335 negated.
enqueueNegated(frequencies, h) ==
    LET r == EnqueueFrom(Foreach(DOMAIN frequencies), frequencies, h, << >>)
    IN [heap |-> r.heap,
        pq |-> [i \in 1..Len(r.pq) |-> [value |-> r.pq[i].value, priority |-> 0 - r.pq[i].priority]]]

enqueueNodes(frequencies, h) ==
    EnqueueFrom(Foreach(DOMAIN frequencies), frequencies, h, << >>)

\* PriorityQueue::dequeue: an entry of least priority; among equal
\* priorities the tie-break decides ("any": every choice).
Candidates(q, tb) ==
    LET least == {i \in 1..Len(q) : \A j \in 1..Len(q) : q[i].priority <= q[j].priority}
    IN CASE tb = "fifo" -> {Min(least)}
         [] tb = "lifo" -> {Max(least)}
         [] OTHER -> least

Remove(q, i) == [j \in 1..(Len(q) - 1) |-> IF j < i THEN q[j] ELSE q[j + 1]]

\* One iteration of the loop of mergeNodes, dequeuing entry i and then
\* entry j of what is left.
\* The loop body as it would be without the second summand of line 355.
MergeKeepsZeroWeight(h, q, i, j) ==
    LET q1 == Remove(q, i)
        q2 == Remove(q1, j)
        node == Node(NOT_A_CHAR, h[q[i].value].weight, q[i].value, q1[j].value)
    IN [heap |-> Append(h, node),
        pq |-> Append(q2, [value |-> Len(h) + 1, priority |-> node.weight])]

MergeOnce(h, q, i, j) ==
    LET q1 == Remove(q, i)
        q2 == Remove(q1, j)
        node == Node(NOT_A_CHAR, h[q[i].value].weight + h[q1[j].value].weight,
                     q[i].value, q1[j].value)
    IN [heap |-> Append(h, node),
        pq |-> Append(q2, [value |-> Len(h) + 1, priority |-> node.weight])]

\* The walk shared by isCorrectCode and searchCodeInTree: follow `code` from
\* node n; a character other than '0' takes the one branch.  The result is
\* [node, ub]: ub when a NULL pointer was dereferenced on the way.
RECURSIVE Walk(_, _, _, _)
Walk(h, n, code, i) ==
    IF i > Len(code) THEN [node |-> n, ub |-> FALSE]
    ELSE IF n = NULL THEN [node |-> NULL, ub |-> TRUE]
    ELSE Walk(h, IF code[i] = 48 THEN h[n].zero ELSE h[n].one, code, i + 1)

\* isCorrectCode: [ok, ub]; reading currNode->character of NULL is undefined.
isCorrectCode(h, fromRoot, code, character) ==
    LET w == Walk(h, fromRoot, code, 1)
    IN IF w.ub \/ w.node = NULL THEN [ok |-> FALSE, ub |-> TRUE]
       ELSE [ok |-> h[w.node].character = character, ub |-> FALSE]

\* searchCharacterInTree: [code, ub].
\* The search as it would be without the "1" of line 379 in its result.
RECURSIVE searchDropsOne(_, _, _)
searchDropsOne(h, root, character) ==
    IF h[root].character # NOT_A_CHAR THEN [code |-> << >>, ub |-> FALSE]
    ELSE LET s0 == searchDropsOne(h, h[root].zero, character)
             r0 == <<48>> \o s0.code
             c0 == isCorrectCode(h, root, r0, character)
         IN IF s0.ub \/ c0.ub THEN [code |-> << >>, ub |-> TRUE]
            ELSE IF c0.ok THEN [code |-> r0, ub |-> FALSE]
            ELSE LET s1 == searchDropsOne(h, h[root].one, character)
                     r1 == <<49>> \o s1.code
                     c1 == isCorrectCode(h, root, r1, character)
                 IN IF s1.ub \/ c1.ub THEN [code |-> << >>, ub |-> TRUE]
                    ELSE IF c1.ok THEN [code |-> s1.code, ub |-> FALSE]
                    ELSE [code |-> << >>, ub |-> FALSE]

RECURSIVE searchCharacterInTree(_, _, _)
searchCharacterInTree(h, root, character) ==
    IF h[root].character # NOT_A_CHAR THEN [code |-> << >>, ub |-> FALSE]
    ELSE LET s0 == searchCharacterInTree(h, h[root].zero, character)
             r0 == <<48>> \o s0.code
             c0 == isCorrectCode(h, root, r0, character)
         IN IF s0.ub \/ c0.ub THEN [code |-> << >>, ub |-> TRUE]
            ELSE IF c0.ok THEN [code |-> r0, ub |-> FALSE]
            ELSE LET s1 == searchCharacterInTree(h, h[root].one, character)
                     r1 == <<49>> \o s1.code
                     c1 == isCorrectCode(h, root, r1, character)
                 IN IF s1.ub \/ c1.ub THEN [code |-> << >>, ub |-> TRUE]
                    ELSE IF c1.ok THEN [code |-> r1, ub |-> FALSE]
                    ELSE [code |-> << >>, ub |-> FALSE]

\* searchCodeInTree: [character, ub].
searchCodeInTree(h, root, code) ==
    LET w == Walk(h, root, code, 1)
    IN IF w.ub \/ w.node = NULL THEN [character |-> NOT_A_CHAR, ub |-> TRUE]
       ELSE [character |-> h[w.node].character, ub |-> FALSE]

\* ------------------------------------------------------------ the streams
\* obstream: the bytes written so far and the bit position in the last one
\* (NUM_BITS_IN_BYTE: the next bit starts a new byte).  Bit n of a byte has
\* value 2^n.
NewStream == [bytes |-> << >>, pos |-> NUM_BITS_IN_BYTE]

\* outfile << text
WriteText(os, s) == [bytes |-> os.bytes \o s, pos |-> NUM_BITS_IN_BYTE]

\* outfile.writeBit(bit)
writeBit(os, bit) ==
    IF os.pos = NUM_BITS_IN_BYTE
    THEN [bytes |-> Append(os.bytes, bit), pos |-> 1]
    ELSE [bytes |-> [os.bytes EXCEPT ![Len(os.bytes)] = @ + bit * Pow2(os.pos)],
          pos |-> os.pos + 1]

RECURSIVE WriteBitsFrom(_, _, _)
WriteBitsFrom(os, code, i) ==
    IF i > Len(code) THEN os
    ELSE WriteBitsFrom(writeBit(os, IF code[i] = 48 THEN 0 ELSE 1), code, i + 1)

\* writeBits as it would be with the two branches of lines 420-427 swapped.
writeBitsSwapped(os, code) ==
    WriteBitsFrom(os, [i \in 1..Len(code) |-> IF code[i] = 48 THEN 49 ELSE 48], 1)

writeBits(os, code) == WriteBitsFrom(os, code, 1)

\* ibstream over the bytes of a file: the index of the next byte, failbit,
\* and the bit position in the current byte.
OpenStream == [pos |-> 1, fail |-> FALSE, bit |-> NUM_BITS_IN_BYTE, cur |-> 0]

\* infile.get(): EOF (and failbit) at the end of the file or once failed.
Get(bytes, st) ==
    IF st.fail \/ st.pos > Len(bytes)
    THEN [c |-> EOF, st |-> [st EXCEPT !.fail = TRUE]]
    ELSE [c |-> bytes[st.pos], st |-> [st EXCEPT !.pos = @ + 1]]

RECURSIVE SkipWs(_, _)
SkipWs(bytes, p) ==
    IF p <= Len(bytes) /\ IsSpace(bytes[p]) THEN SkipWs(bytes, p + 1) ELSE p

RECURSIVE ReadDigits(_, _, _)
ReadDigits(bytes, p, acc) ==
    IF p <= Len(bytes) /\ IsDigit(bytes[p])
    THEN ReadDigits(bytes, p + 1, 10 * acc + (bytes[p] - 48))
    ELSE [value |-> acc, pos |-> p]

\* infile >> n, for an int n that was not initialised: leading whitespace
\* is skipped, then an optional sign and the digits are read.  When nothing
\* can be read failbit is set and n holds `garbage` (an indeterminate
\* value, or the 0 a C++11 library stores).
ExtractInt(bytes, st, garbage) ==
    IF st.fail THEN [value |-> garbage, st |-> st]
    ELSE LET p0 == SkipWs(bytes, st.pos)
             signed == p0 <= Len(bytes) /\ bytes[p0] \in {43, 45}
             p1 == IF signed THEN p0 + 1 ELSE p0
             d == ReadDigits(bytes, p1, 0)
         IN IF d.pos = p1
            THEN [value |-> garbage, st |-> [st EXCEPT !.pos = p1, !.fail = TRUE]]
            ELSE [value |-> IF signed /\ bytes[p0] = 45 THEN 0 - d.value ELSE d.value,
                  st |-> [st EXCEPT !.pos = d.pos]]

\* infile.readBit(): EOF when no byte is left.
readBit(bytes, st) ==
    IF st.bit = NUM_BITS_IN_BYTE
    THEN LET g == Get(bytes, st)
         IN IF g.c = EOF THEN [bit |-> EOF, st |-> g.st]
            ELSE [bit |-> g.c % 2, st |-> [g.st EXCEPT !.cur = g.c, !.bit = 1]]
    ELSE [bit |-> (st.cur \div Pow2(st.bit)) % 2, st |-> [st EXCEPT !.bit = @ + 1]]

\* ------------------------------------------------------------- the header
\* The pairs [char][frequency][space] of writeFileHeader's foreach loop.
\* (HeaderPairsNoSpace: the pairs as they would be without the ' ' of
\* line 223.)
RECURSIVE HeaderPairsNoSpace(_, _)
HeaderPairsNoSpace(keys, frequencies) ==
    IF keys = << >> THEN << >>
    ELSE LET ch == Head(keys) IN
         IF ch = PSEUDO_EOF THEN HeaderPairsNoSpace(Tail(keys), frequencies)
         ELSE <<ch % 256>> \o integerToString(frequencies[ch])
              \o HeaderPairsNoSpace(Tail(keys), frequencies)

RECURSIVE HeaderPairs(_, _)
HeaderPairs(keys, frequencies) ==
    IF keys = << >> THEN << >>
    ELSE LET ch == Head(keys) IN
         IF ch = PSEUDO_EOF THEN HeaderPairs(Tail(keys), frequencies)
         ELSE <<ch % 256>> \o integerToString(frequencies[ch]) \o <<32>>
              \o HeaderPairs(Tail(keys), frequencies)

HeaderText(frequencies) ==
    integerToString(Cardinality(DOMAIN frequencies) - 1) \o <<32>>
    \o HeaderPairs(Foreach(DOMAIN frequencies), frequencies)

\* writeFileHeader: [os, error]; error("No PSEUDO_EOF defined.") throws
\* before anything is written.
\* (writeUnchecked: writeFileHeader as it would be without lines 208-210.)
writeUnchecked(os, frequencies) ==
    [os |-> WriteText(os, HeaderText(frequencies)), error |-> FALSE]

writeFileHeader(os, frequencies) ==
    IF PSEUDO_EOF \notin DOMAIN frequencies THEN [os |-> os, error |-> TRUE]
    ELSE [os |-> WriteText(os, HeaderText(frequencies)), error |-> FALSE]

\* The for loop of readFileHeader.
RECURSIVE ReadPairs(_, _, _, _, _, _)
ReadPairs(bytes, st, i, numValues, result, gF) ==
    IF i >= numValues THEN [result |-> result, st |-> st]
    ELSE LET g == Get(bytes, st)
             f == ExtractInt(bytes, g.st, gF)
             s == Get(bytes, f.st)
         IN ReadPairs(bytes, s.st, i + 1, numValues, Put(result, g.c, f.value), gF)

\* readFileHeader: [result, st]; gN and gF are what numValues and frequency
\* hold when their extraction fails.
readFileHeader(bytes, st, gN, gF) ==
    LET n == ExtractInt(bytes, st, gN)
        s == Get(bytes, n.st)
        r == ReadPairs(bytes, s.st, 0, n.value, EmptyMap, gF)
    IN [result |-> Put(r.result, PSEUDO_EOF, 1), st |-> r.st]

\* freeTree: the nodes it deletes.
RECURSIVE Freed(_, _)
Freed(h, n) ==
    IF h[n].character # NOT_A_CHAR THEN {n}
    ELSE Freed(h, h[n].zero) \cup Freed(h, h[n].one) \cup {n}

\* ------------------------------------------------------------- the state
VARIABLES
    pc,           \* the statement compress / decompress is about to run
    phase,        \* "compress", "decompress"; "tree", "header" in the sub-specs
    tieBreak,     \* the priority queue's order among equal priorities
    input,        \* the bytes of the source file
    freq,         \* frequencyTable of compress
    dfreq,        \* frequencyTable of decompress
    heap,         \* the allocated Nodes
    pq,           \* pQueue
    root,         \* rootEncodingTree
    inpos,        \* read position of encodeFile's infile (1-based)
    encodingMap,  \* encodeFile's encodingMap
    outfile,      \* the compressed file: compress's obstream
    tampered,     \* the compressed file was cut short before decompress
    infile,       \* decompress's ibstream over the compressed file
    code,         \* decodeFile's code
    out,          \* the bytes decompress has written
    eofRead       \* readBit has returned EOF in decodeFile

vars == <<pc, phase, tieBreak, input, freq, dfreq, heap, pq, root, inpos,
          encodingMap, outfile, tampered, infile, code, out, eofRead>>

RECURSIVE SeqsUpTo(_, _)
SeqsUpTo(S, n) ==
    IF n = 0 THEN {<< >>}
    ELSE SeqsUpTo(S, n - 1) \cup [1..n -> S]

\* The maps with keys among K and values in 1..n.
MapsOver(K, n) == UNION {[D -> 1..n] : D \in SUBSET K}

Blank ==
    /\ dfreq = EmptyMap
    /\ heap = << >>
    /\ pq = << >>
    /\ root = NULL
    /\ inpos = 1
    /\ encodingMap = EmptyMap
    /\ outfile = NewStream
    /\ tampered = FALSE
    /\ infile = OpenStream
    /\ code = << >>
    /\ out = << >>
    /\ eofRead = FALSE

\* compress is called on a source file.
Init ==
    /\ pc = "getFrequencyTable"
    /\ phase = "compress"
    /\ tieBreak \in TieBreaks
    /\ input \in SeqsUpTo(Bytes, MaxLen)
    /\ freq = EmptyMap
    /\ Blank

\* buildEncodingTree is called on a frequency table that getFrequencyTable
\* can return; the queue may break ties any way.
InitTree ==
    /\ pc = "enqueueNodes"
    /\ phase = "tree"
    /\ tieBreak = "any"
    /\ input = << >>
    /\ freq \in {Put(m, PSEUDO_EOF, 1) : m \in MapsOver(TreeBytes, MaxWeight)}
    /\ Blank

\* writeFileHeader is called on a map with or without PSEUDO_EOF, and
\* readFileHeader on what it wrote.
InitHeader ==
    /\ pc = "writeFileHeader"
    /\ phase = "header"
    /\ tieBreak = "fifo"
    /\ input = << >>
    /\ freq \in MapsOver(HeaderBytes, MaxFreq)
               \cup {Put(m, PSEUDO_EOF, 1) : m \in MapsOver(HeaderBytes, MaxFreq)}
    /\ Blank

\* ------------------------------------------------------------- compress
\* line 289
GetFrequencyTable ==
    /\ pc = "getFrequencyTable"
    /\ freq' = getFrequencyTable(input)
    /\ pc' = "writeFileHeader"
    /\ UNCHANGED <<phase, tieBreak, input, dfreq, heap, pq, root, inpos,
                   encodingMap, outfile, tampered, infile, code, out, eofRead>>

\* line 290
WriteFileHeader ==
    /\ pc = "writeFileHeader"
    /\ LET w == writeFileHeader(outfile, freq) IN
        /\ outfile' = w.os
        /\ pc' = IF w.error THEN "error"
                 ELSE IF phase = "header" THEN "readFileHeader"
                 ELSE "enqueueNodes"
    /\ UNCHANGED <<phase, tieBreak, input, freq, dfreq, heap, pq, root, inpos,
                   encodingMap, tampered, infile, code, out, eofRead>>

\* buildEncodingTree, lines 68-69
EnqueueNodes ==
    /\ pc = "enqueueNodes"
    /\ LET e == enqueueNodes(IF phase = "decompress" THEN dfreq ELSE freq, heap) IN
        /\ heap' = e.heap
        /\ pq' = e.pq
    /\ pc' = "mergeNodes"
    /\ UNCHANGED <<phase, tieBreak, input, freq, dfreq, root, inpos,
                   encodingMap, outfile, tampered, infile, code, out, eofRead>>

\* mergeNodes, one iteration of the loop (lines 349-356)
MergeNodesLoop ==
    /\ pc = "mergeNodes"
    /\ Len(pq) > 1
    /\ \E i \in Candidates(pq, tieBreak) :
         \E j \in Candidates(Remove(pq, i), tieBreak) :
            LET m == MergeOnce(heap, pq, i, j) IN
                /\ heap' = m.heap
                /\ pq' = m.pq
    /\ UNCHANGED <<pc, phase, tieBreak, input, freq, dfreq, root, inpos,
                   encodingMap, outfile, tampered, infile, code, out, eofRead>>

\* mergeNodes, lines 349 and 359-361, and the return of buildEncodingTree
MergeNodesReturn ==
    /\ pc = "mergeNodes"
    /\ Len(pq) = 1
    /\ root' = pq[1].value
    /\ pq' = << >>
    /\ pc' = CASE phase = "compress" -> "encodeFile"
               [] phase = "decompress" -> "decodeFile"
               [] OTHER -> "done"
    /\ UNCHANGED <<phase, tieBreak, input, freq, dfreq, heap, inpos,
                   encodingMap, outfile, tampered, infile, code, out, eofRead>>

\* encodeFile, one iteration of the loop (lines 121-140); a NULL
\* dereference in the search ends the run.
EncodeFileLoop ==
    /\ pc = "encodeFile"
    /\ inpos <= Len(input)
    /\ LET currChar == input[inpos]
           cached == currChar \in DOMAIN encodingMap
           s == IF cached THEN [code |-> encodingMap[currChar], ub |-> FALSE]
                ELSE searchCharacterInTree(heap, root, currChar)
       IN /\ pc' = IF s.ub THEN "crashed" ELSE pc
          /\ encodingMap' = IF cached \/ s.ub THEN encodingMap
                            ELSE Put(encodingMap, currChar, s.code)
          /\ outfile' = IF s.ub THEN outfile ELSE writeBits(outfile, s.code)
    /\ inpos' = inpos + 1
    /\ UNCHANGED <<phase, tieBreak, input, freq, dfreq, heap, pq, root,
                   tampered, infile, code, out, eofRead>>

\* encodeFile, lines 121-123 and 143-144
EncodeFileEnd ==
    /\ pc = "encodeFile"
    /\ inpos > Len(input)
    /\ LET s == searchCharacterInTree(heap, root, PSEUDO_EOF) IN
        /\ pc' = IF s.ub THEN "crashed" ELSE "freeTree"
        /\ outfile' = IF s.ub THEN outfile ELSE writeBits(outfile, s.code)
    /\ UNCHANGED <<phase, tieBreak, input, freq, dfreq, heap, pq, root, inpos,
                   encodingMap, tampered, infile, code, out, eofRead>>

\* freeTree (line 294 of compress, line 314 of decompress) and the return
FreeTree ==
    /\ pc = "freeTree"
    /\ heap' = IF Freed(heap, root) = 1..Len(heap) THEN << >> ELSE heap
    /\ root' = NULL
    /\ pc' = IF phase = "compress" THEN "readFileHeader" ELSE "done"
    /\ phase' = "decompress"
    /\ UNCHANGED <<tieBreak, input, freq, dfreq, pq, inpos,
                   encodingMap, outfile, tampered, infile, code, out, eofRead>>

\* ------------------------------------------------------------ decompress
\* The compressed file reaches decompress cut to its first k bytes.
Truncate ==
    /\ pc = "readFileHeader"
    /\ phase = "decompress"
    /\ ~tampered
    /\ \E k \in 0..(Len(outfile.bytes) - 1) :
         outfile' = [outfile EXCEPT !.bytes = SubSeq(outfile.bytes, 1, k)]
    /\ tampered' = TRUE
    /\ UNCHANGED <<pc, phase, tieBreak, input, freq, dfreq, heap, pq, root, inpos,
                   encodingMap, infile, code, out, eofRead>>

\* line 311
ReadFileHeader ==
    /\ pc = "readFileHeader"
    /\ \E gN \in 0..MaxGarbage, gF \in 0..MaxGarbage :
         LET r == readFileHeader(outfile.bytes, OpenStream, gN, gF) IN
            /\ dfreq' = r.result
            /\ infile' = r.st
    /\ pc' = IF phase = "header" THEN "done" ELSE "enqueueNodes"
    /\ UNCHANGED <<phase, tieBreak, input, freq, heap, pq, root, inpos,
                   encodingMap, outfile, tampered, code, out, eofRead>>

\* decodeFile, one iteration of the loop (lines 167-177) in which
\* searchCodeInTree returns `character`.
DecodeWith(r, character) ==
    /\ infile' = r.st
    /\ eofRead' = (eofRead \/ r.bit = EOF)
    /\ IF character = PSEUDO_EOF
       THEN pc' = "freeTree" /\ UNCHANGED <<code, out>>
       ELSE IF character # NOT_A_CHAR
       THEN /\ Len(out) < Len(input) + MaxOut
            /\ out' = Append(out, character % 256)
            /\ code' = << >>
            /\ UNCHANGED pc
       ELSE /\ code' = code \o integerToString(r.bit)
            /\ UNCHANGED <<pc, out>>
    /\ UNCHANGED <<phase, tieBreak, input, freq, dfreq, heap, pq, root, inpos,
                   encodingMap, outfile, tampered>>

DecodeFileLoop ==
    /\ pc = "decodeFile"
    /\ LET r == readBit(outfile.bytes, infile)
           s == searchCodeInTree(heap, root, code \o integerToString(r.bit))
       IN /\ ~s.ub
          /\ DecodeWith(r, s.character)

\* decodeFile when searchCodeInTree dereferences NULL: the read yields any
\* value (here: PSEUDO_EOF or the byte 0) ...
DecodeFileWild ==
    /\ pc = "decodeFile"
    /\ LET r == readBit(outfile.bytes, infile)
           s == searchCodeInTree(heap, root, code \o integerToString(r.bit))
       IN /\ s.ub
          /\ \E character \in {PSEUDO_EOF, 0} : DecodeWith(r, character)

\* ... or the process is killed.
DecodeFileSegv ==
    /\ pc = "decodeFile"
    /\ LET r == readBit(outfile.bytes, infile)
           s == searchCodeInTree(heap, root, code \o integerToString(r.bit))
       IN /\ s.ub
          /\ infile' = r.st
          /\ eofRead' = (eofRead \/ r.bit = EOF)
    /\ pc' = "crashed"
    /\ UNCHANGED <<phase, tieBreak, input, freq, dfreq, heap, pq, root, inpos,
                   encodingMap, outfile, tampered, code, out>>

Next ==
    \/ GetFrequencyTable
    \/ WriteFileHeader
    \/ EnqueueNodes
    \/ MergeNodesLoop
    \/ MergeNodesReturn
    \/ EncodeFileLoop
    \/ EncodeFileEnd
    \/ FreeTree
    \/ Truncate
    \/ ReadFileHeader
    \/ DecodeFileLoop
    \/ DecodeFileWild
    \/ DecodeFileSegv

NextTree ==
    \/ EnqueueNodes
    \/ MergeNodesLoop
    \/ MergeNodesReturn

NextHeader ==
    \/ WriteFileHeader
    \/ ReadFileHeader

Spec == Init /\ [][Next]_vars
SpecTree == InitTree /\ [][NextTree]_vars
SpecHeader == InitHeader /\ [][NextHeader]_vars

\* ------------------------------------------------- what the claims speak of
IsPrefix(a, b) == Len(a) <= Len(b) /\ SubSeq(b, 1, Len(a)) = a

IsLeaf(h, n) == h[n].zero = NULL /\ h[n].one = NULL

\* The nodes of the tree under n.
RECURSIVE Reach(_, _)
Reach(h, n) ==
    IF n = NULL THEN {}
    ELSE {n} \cup Reach(h, h[n].zero) \cup Reach(h, h[n].one)

\* The branch sequences (0 = zero child, 1 = one child) that lead from
\* node `from` to a leaf holding symbol s.
BranchChars(p) == [i \in 1..Len(p) |-> 48 + p[i]]

PathsTo(h, from, s) ==
    {p \in SeqsUpTo({0, 1}, Len(h) \div 2) :
        LET w == Walk(h, from, BranchChars(p), 1)
        IN ~w.ub /\ w.node # NULL /\ IsLeaf(h, w.node) /\ h[w.node].character = s}

path(h, from, s) == CHOOSE p \in PathsTo(h, from, s) : TRUE

RECURSIVE PathsOf(_, _, _)
PathsOf(h, from, symbols) ==
    IF symbols = << >> THEN << >>
    ELSE path(h, from, Head(symbols)) \o PathsOf(h, from, Tail(symbols))

\* The bytes that hold a bit sequence, bit n of a byte having value 2^n,
\* the last byte filled up with 0 bits.
RECURSIVE ByteOf(_, _, _)
ByteOf(bits, k, n) ==
    IF n = NUM_BITS_IN_BYTE THEN 0
    ELSE (IF NUM_BITS_IN_BYTE * (k - 1) + n + 1 <= Len(bits)
          THEN bits[NUM_BITS_IN_BYTE * (k - 1) + n + 1] * Pow2(n) ELSE 0)
         + ByteOf(bits, k, n + 1)

Packed(bits) ==
    [k \in 1..((Len(bits) + NUM_BITS_IN_BYTE - 1) \div NUM_BITS_IN_BYTE) |->
        ByteOf(bits, k, 0)]

RECURSIVE SumOver(_, _)
SumOver(S, f) ==
    IF S = {} THEN 0
    ELSE LET x == CHOOSE y \in S : TRUE IN f[x] + SumOver(S \ {x}, f)

\* Sum over the leaves under n of count x depth.
RECURSIVE WeightedPathLength(_, _, _, _)
WeightedPathLength(h, n, d, counts) ==
    IF IsLeaf(h, n) THEN counts[h[n].character] * d
    ELSE WeightedPathLength(h, h[n].zero, d + 1, counts)
         + WeightedPathLength(h, h[n].one, d + 1, counts)

\* The least weighted path length of a binary tree whose leaves are the
\* symbols S: every split of S into two subtrees is tried.
RECURSIVE LeastWPL(_, _)
LeastWPL(S, counts) ==
    IF Cardinality(S) <= 1 THEN 0
    ELSE LET x == CHOOSE y \in S : TRUE
             splits == {A \in SUBSET S : x \in A /\ A # S}
         IN SumOver(S, counts)
            + Min({LeastWPL(A, counts) + LeastWPL(S \ A, counts) : A \in splits})

Terminated == pc \in {"done", "crashed", "error"}

\* ---------------------------------------------------------------- claims

\* C1: round-trip identity.  Whenever decompress runs on the file compress
\* produced from input S, it ends normally having written exactly S, and
\* what it has written so far is always a prefix of S.
C1_RoundTrip ==
    (phase = "decompress" /\ ~tampered) =>
        /\ IsPrefix(out, input)
        /\ Terminated => (pc = "done" /\ out = input)

\* C2: empty input.  Compressing the empty file writes the header "0 "
\* followed by nothing but the code of the lone PSEUDO_EOF leaf, and
\* decompressing that file ends normally with nothing written.
C2_EmptyInput ==
    (input = << >> /\ phase \in {"compress", "decompress"} /\ ~tampered) =>
        /\ (phase = "compress" /\ pc = "freeTree") =>
               outfile.bytes = <<48, 32>>
                   \o Packed(path(heap, root, PSEUDO_EOF))
        /\ phase = "decompress" =>
               /\ outfile.bytes = <<48, 32>>
               /\ out = << >>
               /\ Terminated => pc = "done"

\* C3: truncation detection.  Once readBit has reported the end of the
\* stream in decodeFile, decoding has failed with an error: the result is
\* not appended to the code as a bit and decoding does not go on, crash or
\* end as if PSEUDO_EOF had been reached.
C3_TruncatedStream ==
    eofRead => (pc = "error" /\ 45 \notin {code[i] : i \in 1..Len(code)})

\* C4: malformed header.  When readFileHeader could not read the header
\* (the stream failed while reading it), decompress has ended in an error
\* with no tree built, no body bit read and nothing written.
C4_MalformedHeader ==
    (phase = "decompress" /\ infile.fail /\ ~eofRead /\ pc # "readFileHeader") =>
        (pc = "error" /\ heap = << >> /\ out = << >>)

\* C5: header round-trip.  For a map M of byte keys with positive counts
\* plus PSEUDO_EOF, readFileHeader on the bytes writeFileHeader wrote
\* returns M, having read all of them without failure; the count written
\* first is the number of keys other than PSEUDO_EOF.
C5_HeaderRoundTrip ==
    (phase = "header" /\ pc = "done") =>
        /\ dfreq = freq
        /\ dfreq[PSEUDO_EOF] = 1
        /\ ~infile.fail
        /\ infile.pos = Len(outfile.bytes) + 1
        /\ ExtractInt(outfile.bytes, OpenStream, 0).value
               = Cardinality(DOMAIN freq \ {PSEUDO_EOF})

C5_Witness ==
    /\ phase = "header" /\ pc = "done"
    /\ DOMAIN freq = HeaderBytes \cup {PSEUDO_EOF}
    /\ freq[49] = 10 /\ freq[32] = 1 /\ freq[45] = 2

\* C6: prefix-code validity.  In a tree buildEncodingTree returned, the
\* codes searchCharacterInTree finds for two distinct symbols of the map
\* are such that neither is a prefix of the other.
C6_PrefixFree ==
    (phase = "tree" /\ pc = "done") =>
        \A a \in DOMAIN freq : \A b \in DOMAIN freq \ {a} :
            LET ca == searchCharacterInTree(heap, root, a)
                cb == searchCharacterInTree(heap, root, b)
            IN ~ca.ub /\ ~cb.ub /\ ~IsPrefix(ca.code, cb.code)

C6_Witness ==
    /\ phase = "tree" /\ pc = "done"
    /\ Cardinality(DOMAIN freq) = 5
    /\ Len(searchCharacterInTree(heap, root, PSEUDO_EOF).code) = 4

\* C7: optimality.  The tree buildEncodingTree returned has the least
\* weighted path length (sum over leaves of count x depth) of all binary
\* trees with the map's symbols as leaves, however ties were broken.
C7_Optimal ==
    (phase = "tree" /\ pc = "done") =>
        WeightedPathLength(heap, root, 0, freq) = LeastWPL(DOMAIN freq, freq)

C7_Witness ==
    /\ phase = "tree" /\ pc = "done"
    /\ Cardinality(DOMAIN freq) = 5
    /\ freq[65] = 4 /\ freq[66] = 1 /\ freq[67] = 2 /\ freq[68] = 1
    /\ WeightedPathLength(heap, root, 0, freq) = 19

\* C8: missing sentinel.  writeFileHeader on a map without PSEUDO_EOF ends
\* in an error and leaves the output stream as it was.
C8_MissingSentinel ==
    (phase = "header" /\ PSEUDO_EOF \notin DOMAIN freq /\ pc # "writeFileHeader") =>
        (pc = "error" /\ outfile = NewStream)

C8_Witness ==
    /\ phase = "header" /\ pc = "error"
    /\ DOMAIN freq = {49, 65}

\* C9: encoder output.  While and after encodeFile runs, the file holds
\* the header followed by the packed bits path(b1) ++ ... ++ path(bk) of
\* the bytes encoded so far, ending with path(PSEUDO_EOF) once the input
\* is exhausted; searchCharacterInTree returns path(s) for every symbol s
\* of the tree, and every cached code in encodingMap is path of its byte.
C9_EncoderOutput ==
    (phase = "compress" /\ pc \in {"encodeFile", "freeTree"}) =>
        /\ \A s \in DOMAIN freq :
              LET r == searchCharacterInTree(heap, root, s)
              IN ~r.ub /\ PathsTo(heap, root, s) = {[i \in 1..Len(r.code) |-> r.code[i] - 48]}
        /\ \A b \in DOMAIN encodingMap :
              encodingMap[b] = BranchChars(path(heap, root, b))
        /\ outfile.bytes =
              HeaderText(freq)
              \o Packed(PathsOf(heap, root,
                    SubSeq(input, 1, inpos - 1)
                    \o (IF pc = "freeTree" THEN <<PSEUDO_EOF>> ELSE << >>)))

C9_Witness ==
    /\ phase = "compress" /\ pc = "freeTree"
    /\ Len(input) = 3 /\ input[1] = input[3] /\ input[1] # input[2]
    /\ Len(outfile.bytes) = Len(HeaderText(freq)) + 1

\* C10: tree structure.  mergeNodes ends after one merge per map entry
\* but one (queue length + merges done = entries), and in the tree it
\* returns the leaves are the map's entries, one leaf per symbol with the
\* symbol's count as weight; every other node has character NOT_A_CHAR,
\* two children, the zero child (dequeued first) no heavier than the one
\* child, and the sum of their weights as weight; the root weighs the sum
\* of all counts, and a one-entry map gives that single leaf.
C10_TreeStructure ==
    /\ (phase = "tree" /\ pc = "mergeNodes") =>
          /\ Len(pq) >= 1
          /\ Len(pq) + Cardinality({n \in 1..Len(heap) : ~IsLeaf(heap, n)})
                = Cardinality(DOMAIN freq)
    /\ (phase = "tree" /\ pc = "done") =>
          LET nodes == Reach(heap, root)
              leaves == {n \in nodes : IsLeaf(heap, n)}
          IN /\ nodes = 1..Len(heap)
             /\ Cardinality(leaves) = Cardinality(DOMAIN freq)
             /\ {heap[n].character : n \in leaves} = DOMAIN freq
             /\ \A n \in leaves : heap[n].weight = freq[heap[n].character]
             /\ \A n \in nodes \ leaves :
                   /\ heap[n].character = NOT_A_CHAR
                   /\ heap[n].zero # NULL /\ heap[n].one # NULL
                   /\ heap[n].zero # heap[n].one
                   /\ heap[heap[n].zero].weight <= heap[heap[n].one].weight
                   /\ heap[n].weight = heap[heap[n].zero].weight
                                       + heap[heap[n].one].weight
             /\ heap[root].weight = SumOver(DOMAIN freq, freq)
             /\ Cardinality(DOMAIN freq) = 1 => IsLeaf(heap, root)

C10_Witness ==
    /\ phase = "tree" /\ pc = "done"
    /\ Cardinality(DOMAIN freq) = 4
    /\ heap[root].weight = 8
    /\ ~IsLeaf(heap, heap[root].zero) /\ ~IsLeaf(heap, heap[root].one)

=============================================================================
